---- MODULE Spec2Model ----
(***************************************************************************)
(* A model of cosinekitty/interpolator: the Polynomial value type with its *)
(* arithmetic and canonicalisation, the incremental Lagrange-basis         *)
(* Interpolator (insert / calc) and the expansion Interpolator (insert /   *)
(* clear / polynomial).                                                     *)
(*                                                                         *)
(* The scalar types domain_t and range_t are modelled as the field of      *)
(* rational numbers, held exactly as normalised pairs <<num, den>>.        *)
(***************************************************************************)
EXTENDS Integers, Sequences, FiniteSets, TLC

(***************************************************************************)
(* Bounds of the model.                                                    *)
(***************************************************************************)
\* the largest number of records an Interpolator is grown to
MaxPoints == 3
\* x-coordinates offered to insert are the integers -1 .. MaxX
MaxX == 1
\* the longest coefficient list the two Polynomial objects start from
MaxLen == 3
\* the longest coefficient list handed to the constructor on its own
MaxRaw == 4
\* exponents offered to pow are -2 .. MaxExp
MaxExp == 5

(***************************************************************************)
(* The scalar field: exact rationals.                                      *)
(***************************************************************************)
Abs(n) == IF n < 0 THEN -n ELSE n

RECURSIVE GCD(_, _)
GCD(a, b) == IF b = 0 THEN a ELSE GCD(b, a % b)

\* The outcome of a division by zero: not a number of the field.  It is
\* absorbing under every operation and differs from every number.
Undef == <<0, 0>>

Rat(n, d) ==
    IF d = 0 THEN Undef
    ELSE LET g == GCD(Abs(n), Abs(d))
             s == IF d < 0 THEN -1 ELSE 1
         IN  <<(s * n) \div g, (s * d) \div g>>

FromInt(i) == <<i, 1>>
Zero == FromInt(0)
One == FromInt(1)

IsNum(a) == a[2] # 0

RAdd(a, b) == IF IsNum(a) /\ IsNum(b) THEN Rat(a[1] * b[2] + b[1] * a[2], a[2] * b[2]) ELSE Undef
RSub(a, b) == IF IsNum(a) /\ IsNum(b) THEN Rat(a[1] * b[2] - b[1] * a[2], a[2] * b[2]) ELSE Undef
RMul(a, b) == IF IsNum(a) /\ IsNum(b) THEN Rat(a[1] * b[1], a[2] * b[2]) ELSE Undef
RDiv(a, b) == IF IsNum(a) /\ IsNum(b) THEN Rat(a[1] * b[2], a[2] * b[1]) ELSE Undef
RNeg(a) == IF IsNum(a) THEN <<-a[1], a[2]>> ELSE Undef

(***************************************************************************)
(* Polynomial<domain_t, range_t>: a coefficient sequence, index i (from 1) *)
(* holding the coefficient of x^(i-1).                                     *)
(***************************************************************************)

\* truncate with "if" for "while": drops one zero coefficient at most
truncateOnce(coeff) ==
    IF Len(coeff) > 0 /\ coeff[Len(coeff)] = Zero
    THEN SubSeq(coeff, 1, Len(coeff) - 1)
    ELSE coeff

\* Polynomial::truncate: drop the high-order coefficients that equal zero.
RECURSIVE truncate(_)
truncate(coeff) ==
    IF Len(coeff) > 0 /\ coeff[Len(coeff)] = Zero
    THEN truncate(SubSeq(coeff, 1, Len(coeff) - 1))
    ELSE coeff

\* the constructor of the first revisions: the list is copied as it is
PolynomialAsGiven(coefficients) == coefficients

\* Polynomial(coefficients): copy the list, then truncate().
Polynomial(coefficients) == truncate(coefficients)

\* Polynomial(): the zero polynomial, no coefficients.
PolyZero == <<>>

\* Polynomial::isZero
isZero(p) == Len(p) = 0

\* Horner's loop with the coefficient added before the multiplication
RECURSIVE HornerLoopAddsFirst(_, _, _, _)
HornerLoopAddsFirst(p, x, i, sum) ==
    IF i > 0 THEN HornerLoopAddsFirst(p, x, i - 1, RMul(x, RAdd(sum, p[i]))) ELSE sum

\* Polynomial::operator(): Horner's scheme from the highest coefficient down.
RECURSIVE HornerLoop(_, _, _, _)
HornerLoop(p, x, i, sum) ==
    IF i > 0 THEN HornerLoop(p, x, i - 1, RAdd(RMul(x, sum), p[i])) ELSE sum

Eval(p, x) ==
    IF Len(p) = 0 THEN Zero ELSE HornerLoop(p, x, Len(p) - 1, p[Len(p)])

\* Polynomial::operator() of the first revision: sum += c * xpow; xpow *= x
RECURSIVE PowersLoop(_, _, _, _, _)
PowersLoop(p, x, i, sum, xpow) ==
    IF i > Len(p) THEN sum
    ELSE PowersLoop(p, x, i + 1, RAdd(sum, RMul(p[i], xpow)), RMul(xpow, x))

EvalPowers(p, x) == PowersLoop(p, x, 1, Zero, One)

\* Polynomial::operator-() const
Neg(p) == Polynomial([i \in 1..Len(p) |-> RNeg(p[i])])

\* Polynomial::operator*(range_t scalar)
ScalarMul(p, scalar) == Polynomial([i \in 1..Len(p) |-> RMul(scalar, p[i])])

\* scalar * poly with the scalar applied twice
ScalarMulLeftTwice(scalar, p) == ScalarMul(ScalarMul(p, scalar), scalar)

\* operator*(range_t scalar, const Polynomial& poly)
ScalarMulLeft(scalar, p) == ScalarMul(p, scalar)

\* the inner loop with prod[i+j] = coeff[i] * other.coeff[j]: an assignment
\* where the code adds
MulRowAssigns(prod, p, q, i) ==
    [m \in 1..Len(prod) |->
        IF m - i \in 1..Len(q) THEN RMul(p[i + 1], q[m - i]) ELSE prod[m]]

\* the inner loop of operator* for one i (from 0): prod[i+j] += coeff[i] *
\* other.coeff[j] for j = 0..b-1.  The b passes write b different elements,
\* element m (from 1) in the pass j = m - i - 1.
MulRow(prod, p, q, i) ==
    [m \in 1..Len(prod) |->
        IF m - i \in 1..Len(q) THEN RAdd(prod[m], RMul(p[i + 1], q[m - i])) ELSE prod[m]]

\* the outer loop of operator*: i = 0..a-1
RECURSIVE MulLoop(_, _, _, _)
MulLoop(prod, p, q, i) ==
    IF i >= Len(p) THEN prod
    ELSE MulLoop(MulRow(prod, p, q, i), p, q, i + 1)

\* operator* of the first revision: no test for an empty operand, so the
\* length is computed for them too; resize(2^w - 1) throws std::length_error
MulRunUnguarded(p, q) ==
    LET a == Len(p)
        b == Len(q)
    IN  IF a + b - 1 < 0
        THEN [value |-> PolyZero, sized |-> TRUE, wrapped |-> TRUE, thrown |-> TRUE]
        ELSE [value |-> Polynomial(MulLoop([m \in 1..(a + b - 1) |-> Zero], p, q, 0)),
              sized |-> TRUE, wrapped |-> FALSE, thrown |-> FALSE]

\* Polynomial::operator*(const Polynomial&).  The run is kept as a record:
\* value is the product; sized tells whether the vector length a + b - 1 was
\* computed, and wrapped whether that size_t subtraction went below zero
\* (where the unsigned result is 2^w - 1).
MulRun(p, q) ==
    LET a == Len(p)
        b == Len(q)
    IN  IF a = 0 \/ b = 0
        THEN [value |-> PolyZero, sized |-> FALSE, wrapped |-> FALSE, thrown |-> FALSE]
        ELSE [value |-> Polynomial(MulLoop([m \in 1..(a + b - 1) |-> Zero], p, q, 0)),
              sized |-> TRUE, wrapped |-> (a + b - 1 < 0), thrown |-> FALSE]

Mul(p, q) == MulRun(p, q).value

\* Polynomial::operator+(const Polynomial&)
Max(a, b) == IF a > b THEN a ELSE b

\* operator+ over the positions of the left operand only
AddOverLeft(p, q) ==
    LET a == Len(p)
        b == Len(q)
    IN  Polynomial([i \in 1..a |-> IF i <= b THEN RAdd(p[i], q[i]) ELSE p[i]])

Add(p, q) ==
    LET a == Len(p)
        b == Len(q)
        n == Max(a, b)
        fst(i) == IF i <= a THEN p[i] ELSE Zero
    IN  Polynomial([i \in 1..n |-> IF i <= b THEN RAdd(fst(i), q[i]) ELSE fst(i)])

\* Polynomial::operator-(const Polynomial&)
Sub(p, q) ==
    LET a == Len(p)
        b == Len(q)
        n == Max(a, b)
        fst(i) == IF i <= a THEN p[i] ELSE Zero
    IN  Polynomial([i \in 1..n |-> IF i <= b THEN RSub(fst(i), q[i]) ELSE fst(i)])

\* Polynomial::operator*=: *this = *this * other; the product is complete
\* before *this is assigned, also when other is *this
MulAssign(self, other) == Mul(self, other)

\* Polynomial::operator+=: *this = *this + other
AddAssign(self, other) == Add(self, other)

\* operator-= with the operands the other way round: *this = other - *this
SubAssignReversed(self, other) == Sub(other, self)

\* Polynomial::operator-=: *this = *this - other
SubAssign(self, other) == Sub(self, other)

\* what the caller cannot see of one pow call: how often the loop body ran,
\* how often it executed square *= square and product *= square
NoRun == [iterations |-> 0, squarings |-> 0, accumulations |-> 0]

\* one pass of the loop body up to the test of the exponent
Pass(run, odd) ==
    [run EXCEPT !.iterations = @ + 1,
                !.accumulations = @ + (IF odd THEN 1 ELSE 0)]

\* the loop with the squaring ahead of the accumulation
RECURSIVE PowLoopSquareFirst(_, _, _, _)
PowLoopSquareFirst(product, square, exponent, run) ==
    LET odd == exponent % 2 = 1
        square1 == Mul(square, square)
        product1 == IF odd THEN Mul(product, square1) ELSE product
        exponent1 == exponent \div 2
        run1 == [Pass(run, odd) EXCEPT !.squarings = @ + 1]
    IN  IF exponent1 = 0 THEN [value |-> product1, run |-> run1]
        ELSE PowLoopSquareFirst(product1, square1, exponent1, run1)

\* the loop with the squaring ahead of the test that leaves the loop
RECURSIVE PowLoopSquareBeforeBreak(_, _, _, _)
PowLoopSquareBeforeBreak(product, square, exponent, run) ==
    LET odd == exponent % 2 = 1
        product1 == IF odd THEN Mul(product, square) ELSE product
        exponent1 == exponent \div 2
        run1 == [Pass(run, odd) EXCEPT !.squarings = @ + 1]
    IN  IF exponent1 = 0 THEN [value |-> product1, run |-> run1]
        ELSE PowLoopSquareBeforeBreak(product1, Mul(square, square), exponent1, run1)

\* Polynomial::pow: the square-and-accumulate loop, for(;;) { if (exponent & 1)
\* product *= square; exponent >>= 1; if (exponent == 0) break;
\* square *= square; }.  Returns the product and the count of what it ran.
RECURSIVE PowLoop(_, _, _, _)
PowLoop(product, square, exponent, run) ==
    LET odd == exponent % 2 = 1
        product1 == IF odd THEN Mul(product, square) ELSE product
        exponent1 == exponent \div 2
        run1 == Pass(run, odd)
    IN  IF exponent1 = 0 THEN [value |-> product1, run |-> run1]
        ELSE PowLoop(product1, Mul(square, square), exponent1,
                     [run1 EXCEPT !.squarings = @ + 1])

\* what pow returns when it leaves before the loop
Returned(value) == [thrown |-> FALSE, value |-> value, run |-> NoRun]
Thrown == [thrown |-> TRUE, value |-> PolyZero, run |-> NoRun]

\* what pow returns after the loop
Looped(p, exponent) ==
    [thrown |-> FALSE] @@ PowLoop(Polynomial(<<One>>), p, exponent, NoRun)

\* pow that takes a negative exponent for 0
powClamped(p, exponent) ==
    IF exponent <= 0 THEN Returned(Polynomial(<<One>>))
    ELSE IF exponent = 1 THEN Returned(p)
    ELSE Looped(p, exponent)

\* pow of an earlier revision: the zero polynomial to the power 0 throws
powZeroZeroThrows(p, exponent) ==
    IF exponent < 0 THEN Thrown
    ELSE IF exponent = 0 /\ isZero(p) THEN Thrown
    ELSE IF exponent = 0 THEN Returned(Polynomial(<<One>>))
    ELSE Looped(p, exponent)

\* pow whose early return for exponent 1 returns [1]
powOneIsOne(p, exponent) ==
    IF exponent < 0 THEN Thrown
    ELSE IF exponent = 0 THEN Returned(Polynomial(<<One>>))
    ELSE IF exponent = 1 THEN Returned(Polynomial(<<One>>))
    ELSE Looped(p, exponent)

\* Polynomial::pow without the two statements that its comment calls not
\* strictly necessary: the exponent test, then the loop for every
\* exponent >= 0
powLoopOnly(p, exponent) ==
    IF exponent < 0 THEN Thrown
    ELSE Looped(p, exponent)

\* Polynomial::pow(int exponent): thrown tells that std::range_error was
\* thrown, in which case no value is returned (value is then not read).
pow(p, exponent) ==
    IF exponent < 0 THEN Thrown
    ELSE IF exponent = 0 THEN Returned(Polynomial(<<One>>))
    ELSE IF exponent = 1 THEN Returned(p)
    ELSE Looped(p, exponent)

\* derivative with the loop started at the constant term: i * coeff[i] for
\* every i from 0
derivativeFromConstant(p) ==
    Polynomial([i \in 1..Len(p) |-> RMul(FromInt(i - 1), p[i])])

\* Polynomial::derivative
derivative(p) ==
    Polynomial([i \in 1..(Len(p) - 1) |-> RMul(FromInt(i), p[i + 1])])

\* integral with the divisor one too large: coeff[i] / (i + 2)
integralDivisorOff(p, arbitraryConstant) ==
    Polynomial(<<arbitraryConstant>> \o [i \in 1..Len(p) |-> RDiv(p[i], FromInt(i + 1))])

\* Polynomial::integral(arbitraryConstant); the returned vector is converted
\* by Polynomial(const std::vector&).
integral(p, arbitraryConstant) ==
    Polynomial(<<arbitraryConstant>> \o [i \in 1..Len(p) |-> RDiv(p[i], FromInt(i))])

\* PolynomialPower's reference: correct{1}; correct *= a, exponent times
RECURSIVE RepeatMul(_, _)
RepeatMul(a, exponent) ==
    IF exponent <= 0 THEN Polynomial(<<One>>)
    ELSE Mul(RepeatMul(a, exponent - 1), a)

\* the loop with gpow *= g in every pass, the first included
RECURSIVE ComposeLoopPowerAhead(_, _, _, _, _)
ComposeLoopPowerAhead(f, g, i, gpow, sum) ==
    IF i >= Len(f) THEN sum
    ELSE LET gpow1 == Mul(gpow, g)
         IN  ComposeLoopPowerAhead(f, g, i + 1, gpow1,
                                   Add(sum, ScalarMulLeft(f[i + 1], gpow1)))

\* compose(f, g): sum of f[i] * g^i, each power got from the previous one
RECURSIVE ComposeLoop(_, _, _, _, _)
ComposeLoop(f, g, i, gpow, sum) ==
    IF i >= Len(f) THEN sum
    ELSE LET gpow1 == IF i > 0 THEN Mul(gpow, g) ELSE gpow
         IN  ComposeLoop(f, g, i + 1, gpow1, Add(sum, ScalarMulLeft(f[i + 1], gpow1)))

\* compose with the two polynomials taken in the other order: g(f(x))
composeSwapped(f, g) == ComposeLoop(g, f, 0, Polynomial(<<One>>), PolyZero)

compose(f, g) == ComposeLoop(f, g, 0, Polynomial(<<One>>), PolyZero)

(***************************************************************************)
(* Interpolator, incremental lineage: one Coefficient record per point,    *)
(* [x, y, diffs, denom]: the point, the roots of the basis term's          *)
(* numerator and its denominator.                                          *)
(***************************************************************************)

\* does a stored record hold this x?  (the loop that opens both inserts)
HasX(recs, x) == \E i \in 1..Len(recs) : recs[i].x = x

\* the new record's denom with the factors of the old records' update,
\* (c.point.x - x)
RECURSIVE NewDenomSwapped(_, _, _, _)
NewDenomSwapped(recs, x, i, denom) ==
    IF i > Len(recs) THEN denom
    ELSE NewDenomSwapped(recs, x, i + 1, RMul(denom, RSub(recs[i].x, x)))

\* d.denom = 1; then d.denom *= (x - c.point.x) for every record c, in order
RECURSIVE NewDenom(_, _, _, _)
NewDenom(recs, x, i, denom) ==
    IF i > Len(recs) THEN denom
    ELSE NewDenom(recs, x, i + 1, RMul(denom, RSub(x, recs[i].x)))

\* insertCoeffs with the correction factor of the old records taken as
\* (x - c.point.x), the sign of the new record's factor
insertCoeffsSwapped(cs, x, y) ==
    IF HasX(cs, x) THEN [ret |-> FALSE, coeffs |-> cs]
    ELSE LET upd == [i \in 1..Len(cs) |->
                        [cs[i] EXCEPT !.diffs = Append(@, x),
                                      !.denom = RMul(@, RSub(x, cs[i].x))]]
             d == [x |-> x, y |-> y,
                   diffs |-> [i \in 1..Len(cs) |-> upd[i].x],
                   denom |-> NewDenom(upd, x, 1, One)]
         IN  [ret |-> TRUE, coeffs |-> upd \o <<d>>]

\* insertCoeffs without the loop that updates the old records
insertCoeffsStale(cs, x, y) ==
    IF HasX(cs, x) THEN [ret |-> FALSE, coeffs |-> cs]
    ELSE LET d == [x |-> x, y |-> y,
                   diffs |-> [i \in 1..Len(cs) |-> cs[i].x],
                   denom |-> NewDenom(cs, x, 1, One)]
         IN  [ret |-> TRUE, coeffs |-> cs \o <<d>>]

\* insertCoeffs without the search for a stored x
insertCoeffsNoCheck(cs, x, y) ==
    LET upd == [i \in 1..Len(cs) |->
                   [cs[i] EXCEPT !.diffs = Append(@, x),
                                 !.denom = RMul(@, RSub(cs[i].x, x))]]
        d == [x |-> x, y |-> y,
              diffs |-> [i \in 1..Len(cs) |-> upd[i].x],
              denom |-> NewDenom(upd, x, 1, One)]
    IN  [ret |-> TRUE, coeffs |-> upd \o <<d>>]

\* Interpolator::insert (incremental): [ret, coeffs]
insertCoeffs(cs, x, y) ==
    IF HasX(cs, x) THEN [ret |-> FALSE, coeffs |-> cs]
    ELSE LET upd == [i \in 1..Len(cs) |->
                        [cs[i] EXCEPT !.diffs = Append(@, x),
                                      !.denom = RMul(@, RSub(cs[i].x, x))]]
             d == [x |-> x, y |-> y,
                   diffs |-> [i \in 1..Len(cs) |-> upd[i].x],
                   denom |-> NewDenom(upd, x, 1, One)]
         IN  [ret |-> TRUE, coeffs |-> upd \o <<d>>]

\* product = 1; product *= (x - d) for every root d, in order
RECURSIVE RootProduct(_, _, _, _)
RootProduct(diffs, x, i, product) ==
    IF i > Len(diffs) THEN product
    ELSE RootProduct(diffs, x, i + 1, RMul(product, RSub(x, diffs[i])))

\* the basis term with the product multiplied by c.denom
BasisTermTimes(c, x) == RMul(RootProduct(c.diffs, x, 1, One), c.denom)

\* one record's basis term at x: product / c.denom
BasisTerm(c, x) == RDiv(RootProduct(c.diffs, x, 1, One), c.denom)

\* Interpolator::calc
RECURSIVE CalcLoop(_, _, _, _)
CalcLoop(cs, x, i, y) ==
    IF i > Len(cs) THEN y
    ELSE CalcLoop(cs, x, i + 1, RAdd(y, RMul(BasisTerm(cs[i], x), cs[i].y)))

\* calc with the sum started at 1
calcFromOne(cs, x) == CalcLoop(cs, x, 1, One)

calc(cs, x) == CalcLoop(cs, x, 1, Zero)

(***************************************************************************)
(* Interpolator, expansion lineage: the points alone, [x, y].              *)
(***************************************************************************)

\* clear() that removes the last point only
clearPopBack(pts) == SubSeq(pts, 1, Len(pts) - 1)

\* Interpolator::clear
clear(pts) == <<>>

\* insert that rejects only a point stored with the same x and the same y
insertSamePoint(pts, x, y) ==
    IF \E i \in 1..Len(pts) : pts[i].x = x /\ pts[i].y = y
    THEN [ret |-> FALSE, points |-> pts]
    ELSE [ret |-> TRUE, points |-> Append(pts, [x |-> x, y |-> y])]

\* insert without the search for a stored x
insertNoCheck(pts, x, y) ==
    [ret |-> TRUE, points |-> Append(pts, [x |-> x, y |-> y])]

\* insert that puts the new point in front of the stored ones
insertInFront(pts, x, y) ==
    IF HasX(pts, x) THEN [ret |-> FALSE, points |-> pts]
    ELSE [ret |-> TRUE, points |-> <<[x |-> x, y |-> y]>> \o pts]

\* Interpolator::insert (expansion): [ret, points]
insert(pts, x, y) ==
    IF HasX(pts, x) THEN [ret |-> FALSE, points |-> pts]
    ELSE [ret |-> TRUE, points |-> Append(pts, [x |-> x, y |-> y])]

\* the inner loop with the factor (x + x_k)/(x_j - x_k)
RECURSIVE FractionLoopPlus(_, _, _, _)
FractionLoopPlus(pts, j, k, fraction) ==
    IF k > Len(pts) THEN fraction
    ELSE IF k = j THEN FractionLoopPlus(pts, j, k + 1, fraction)
    ELSE LET denom == RSub(pts[j].x, pts[k].x)
             factor == Polynomial(<<RDiv(pts[k].x, denom), RDiv(One, denom)>>)
         IN  FractionLoopPlus(pts, j, k + 1, Mul(fraction, factor))

\* the inner loop over the points stored before point j only
RECURSIVE FractionLoopEarlier(_, _, _, _)
FractionLoopEarlier(pts, j, k, fraction) ==
    IF k >= j THEN fraction
    ELSE LET denom == RSub(pts[j].x, pts[k].x)
             factor == Polynomial(<<RDiv(RNeg(pts[k].x), denom), RDiv(One, denom)>>)
         IN  FractionLoopEarlier(pts, j, k + 1, Mul(fraction, factor))

\* the inner loop of polynomial(): fraction *= (x - x_k)/(x_j - x_k), k # j
RECURSIVE FractionLoop(_, _, _, _)
FractionLoop(pts, j, k, fraction) ==
    IF k > Len(pts) THEN fraction
    ELSE IF k = j THEN FractionLoop(pts, j, k + 1, fraction)
    ELSE LET denom == RSub(pts[j].x, pts[k].x)
             factor == Polynomial(<<RDiv(RNeg(pts[k].x), denom), RDiv(One, denom)>>)
         IN  FractionLoop(pts, j, k + 1, Mul(fraction, factor))

\* polynomial() whose outer loop leaves out the last point
RECURSIVE PolynomialLoopStopsEarly(_, _, _)
PolynomialLoopStopsEarly(pts, j, sum) ==
    IF j >= Len(pts) THEN sum
    ELSE PolynomialLoopStopsEarly(pts, j + 1,
            Add(sum, ScalarMulLeft(pts[j].y,
                        FractionLoop(pts, j, 1, Polynomial(<<One>>)))))

\* Interpolator::polynomial
RECURSIVE PolynomialLoop(_, _, _)
PolynomialLoop(pts, j, sum) ==
    IF j > Len(pts) THEN sum
    ELSE PolynomialLoop(pts, j + 1,
            Add(sum, ScalarMulLeft(pts[j].y,
                        FractionLoop(pts, j, 1, Polynomial(<<One>>)))))

polynomial(pts) == PolynomialLoop(pts, 1, PolyZero)

\* the records of a newly constructed incremental Interpolator: the member
\* std::vector<Coefficient> coeffs is default-constructed.  This revision has
\* no clear(); its owner starts over with a new object.
NewCoeffs == <<>>

(***************************************************************************)
(* State.                                                                  *)
(***************************************************************************)
VARIABLES
    coeffs,     \* Interpolator (incremental): std::vector<Coefficient> coeffs
    points,     \* Interpolator (expansion): std::vector<point_t> points
    fresh,      \* an Interpolator constructed at the last clear(): [ret, points]
    dropped,    \* the x of the last record the last clear() removed, or NoX
    call,       \* the last Interpolator call: [op, x, y]
    ret,        \* what the last insert returned: [inc, exp]
    raw,        \* the coefficient list last handed to the Polynomial constructor
    f,          \* a Polynomial object (left operand, target of the in-place forms)
    g,          \* a Polynomial object (right operand)
    res         \* the last Polynomial operation: [op, value, thrown, sized, wrapped, k]

ivars == <<coeffs, points, fresh, dropped, call, ret>>
pvars == <<raw, f, g, res>>
vars == <<coeffs, points, fresh, dropped, call, ret, raw, f, g, res>>

\* inputs
XVals == {FromInt(i) : i \in -1..MaxX}
YVals == {FromInt(-2), Zero}
NoX == <<>>

NoCall == [op |-> "none", x |-> Zero, y |-> Zero]
NoRet == [inc |-> FALSE, exp |-> FALSE]
\* a newly constructed Interpolator (expansion): no points, nothing returned yet
NewInterpolator == [ret |-> FALSE, points |-> <<>>]
NoRes == [op |-> "none", value |-> PolyZero, thrown |-> FALSE,
          sized |-> FALSE, wrapped |-> FALSE, k |-> 0, arg |-> Zero, y |-> Zero,
          run |-> NoRun]

\* the state after construction: both Interpolators empty, both Polynomials zero
Init ==
    /\ coeffs = NewCoeffs
    /\ points = <<>>
    /\ fresh = NewInterpolator
    /\ dropped = NoX
    /\ call = NoCall
    /\ ret = NoRet
    /\ raw = <<>>
    /\ f = PolyZero
    /\ g = PolyZero
    /\ res = NoRes

(***************************************************************************)
(* The Interpolator's operations.  One caller drives an Interpolator of    *)
(* each lineage with the same calls.                                       *)
(***************************************************************************)
InsertCall(x, y) ==
    /\ Len(points) < MaxPoints \/ HasX(points, x)
    /\ LET ri == insertCoeffs(coeffs, x, y)
           re == insert(points, x, y)
       IN  /\ coeffs' = ri.coeffs
           /\ points' = re.points
           /\ ret' = [inc |-> ri.ret, exp |-> re.ret]
    /\ call' = [op |-> "insert", x |-> x, y |-> y]
    /\ UNCHANGED pvars

ClearCall ==
    /\ points' = clear(points)
    /\ coeffs' = NewCoeffs
    /\ call' = [op |-> "clear", x |-> Zero, y |-> Zero]
    /\ UNCHANGED ret
    /\ UNCHANGED pvars

Insert(x, y) == InsertCall(x, y) /\ UNCHANGED <<fresh, dropped>>

Clear == ClearCall /\ UNCHANGED <<fresh, dropped>>

Next ==
    \/ \E x \in XVals, y \in YVals : Insert(x, y)
    \/ Clear

Spec == Init /\ [][Next]_vars

\* the same Interpolators given inserts only, in every order
NextInserts == \E x \in XVals, y \in YVals : Insert(x, y)

SpecInserts == Init /\ [][NextInserts]_vars

(***************************************************************************)
(* The same calls, with a second Interpolator that is newly constructed    *)
(* whenever the first is cleared, and then given the same inserts.         *)
(***************************************************************************)
InsertBoth(x, y) ==
    /\ InsertCall(x, y)
    /\ fresh' = insert(fresh.points, x, y)
    /\ UNCHANGED dropped

ClearFirst ==
    /\ ClearCall
    /\ fresh' = NewInterpolator
    /\ dropped' = IF Len(points) > 0 THEN points[Len(points)].x ELSE NoX

NextClear ==
    \/ \E x \in XVals, y \in YVals : InsertBoth(x, y)
    \/ ClearFirst

SpecClear == Init /\ [][NextClear]_vars

(***************************************************************************)
(* The Polynomial operations.  f and g are two Polynomial objects; res     *)
(* holds what the last operation returned, until the caller assigns it to  *)
(* f or to g, or drops it; then the next operation is called.              *)
(***************************************************************************)

\* coefficients and scalars offered to the operations
CoefVals == {FromInt(-1), Zero, One}

\* every list of at most n coefficients
ListsUpTo(n) == UNION {[1..m -> CoefVals] : m \in 0..n}

\* n points sampled from p at x = -1, 0, 1, ..., inserted in that order
RECURSIVE InsertSamples(_, _, _, _)
InsertSamples(pts, p, i, n) ==
    IF i > n THEN pts
    ELSE InsertSamples(insert(pts, FromInt(i - 2), Eval(p, FromInt(i - 2))).points,
                       p, i + 1, n)

\* a value may be stored back into f while it stays within these bounds
Fits(p) ==
    /\ Len(p) <= MaxLen
    /\ \A i \in 1..Len(p) : p[i] \in CoefVals

\* what the caller holds after an operation: the Polynomial returned (value),
\* or thrown; arg is the scalar argument of the call, k the integer one, and
\* y the scalar returned by an evaluation; run is what the loop of pow ran
Result(op, value) ==
    [op |-> op, value |-> value, thrown |-> FALSE,
     sized |-> FALSE, wrapped |-> FALSE, k |-> 0, arg |-> Zero, y |-> Zero,
     run |-> NoRun]

\* operands of src/unittest.cpp and of the documentation of compose
TestF == {<<Zero, FromInt(2), FromInt(5)>>,
          <<Rat(15, 2), FromInt(-1), One>>,
          <<FromInt(-1), One>>,
          <<FromInt(3), FromInt(-4), FromInt(5)>>}

TestG == {<<FromInt(7), FromInt(-3)>>,
          <<FromInt(100), FromInt(3)>>,
          <<FromInt(-2), One>>,
          <<FromInt(2), FromInt(7), FromInt(8), One>>}

\* the state after constructing f and g from coefficient lists
InitPoly ==
    /\ coeffs = NewCoeffs
    /\ points = <<>>
    /\ fresh = NewInterpolator
    /\ dropped = NoX
    /\ call = NoCall
    /\ ret = NoRet
    /\ raw = <<>>
    /\ f \in {Polynomial(L) : L \in ListsUpTo(MaxLen) \cup TestF}
    /\ g \in {Polynomial(L) : L \in ListsUpTo(2) \cup TestG}
    /\ res = NoRes

\* no result is pending: the caller is about to call an operation
Ready == res.op = "none"

\* an operation that returns a new polynomial and changes neither operand
Returns(op, value) ==
    /\ Ready
    /\ res' = Result(op, value)
    /\ UNCHANGED <<f, g, raw>>
    /\ UNCHANGED ivars

\* an operation with a scalar argument
ReturnsOf(op, arg, value) ==
    /\ Ready
    /\ res' = [Result(op, value) EXCEPT !.arg = arg]
    /\ UNCHANGED <<f, g, raw>>
    /\ UNCHANGED ivars

\* the scalars a Polynomial is multiplied by
ScalarVals == CoefVals \cup {FromInt(-2)}

\* the x values at which a Polynomial is evaluated
EvalXs == XVals \cup {Rat(7, 2)}

\* f(x): a scalar is returned
OpEval(x) ==
    /\ Ready
    /\ res' = [Result("eval", PolyZero) EXCEPT !.arg = x, !.y = Eval(f, x)]
    /\ UNCHANGED <<f, g, raw>>
    /\ UNCHANGED ivars

OpNeg == Returns("neg", Neg(f))

OpScalar(s) == ReturnsOf("scalar", s, ScalarMul(f, s))

OpScalarLeft(s) == ReturnsOf("scalarleft", s, ScalarMulLeft(s, f))

OpMul ==
    /\ Ready
    /\ res' = MulRun(f, g) @@ Result("mul", PolyZero)
    /\ UNCHANGED <<f, g, raw>>
    /\ UNCHANGED ivars

OpAdd == Returns("add", Add(f, g))

OpSub == Returns("sub", Sub(f, g))

\* f.pow(k): when pow throws, thrown is set and no value is returned (the
\* value field then holds PolyZero and stands for nothing)
OpPow(k) ==
    /\ Ready
    /\ LET r == pow(f, k)
       IN  res' = [Result("pow", r.value) EXCEPT !.thrown = r.thrown, !.k = k,
                                                 !.run = r.run]
    /\ UNCHANGED <<f, g, raw>>
    /\ UNCHANGED ivars

OpDerivative == Returns("derivative", derivative(f))

OpIntegral(c) == ReturnsOf("integral", c, integral(f, c))

\* check = integral.derivative(): the derivative of the integral just returned
OpDerivativeOfIntegral ==
    /\ res.op = "integral"
    /\ res' = [Result("integral.derivative", derivative(res.value)) EXCEPT !.arg = res.arg]
    /\ UNCHANGED <<f, g, raw>>
    /\ UNCHANGED ivars

OpCompose == Returns("compose", compose(f, g))

\* Interpolator::polynomial() of a new Interpolator given n samples of f
OpInterpolate(n) ==
    Returns("polynomial", polynomial(InsertSamples(NewInterpolator.points, f, 1, n)))

\* the in-place forms: *this = *this OP other
Updates(op, value) ==
    /\ Ready
    /\ Fits(value)
    /\ f' = value
    /\ res' = Result(op, value)
    /\ UNCHANGED <<g, raw>>
    /\ UNCHANGED ivars

OpMulAssign == Updates("mulassign", MulAssign(f, g))

OpAddAssign == Updates("addassign", AddAssign(f, g))

OpSubAssign == Updates("subassign", SubAssign(f, g))

\* f *= f, f += f, f -= f: other is the object itself
OpMulAssignSelf == Updates("mulassign.self", MulAssign(f, f))

OpAddAssignSelf == Updates("addassign.self", AddAssign(f, f))

OpSubAssignSelf == Updates("subassign.self", SubAssign(f, f))

\* f = r and g = r: the last result becomes an operand
AssignF ==
    /\ ~Ready
    /\ ~res.thrown
    /\ Fits(res.value)
    /\ f' = res.value
    /\ res' = NoRes
    /\ UNCHANGED <<g, raw>>
    /\ UNCHANGED ivars

AssignG ==
    /\ ~Ready
    /\ ~res.thrown
    /\ Fits(res.value)
    /\ Len(res.value) <= 2
    /\ g' = res.value
    /\ res' = NoRes
    /\ UNCHANGED <<f, raw>>
    /\ UNCHANGED ivars

\* the result (or the exception) is dropped
Discard ==
    /\ ~Ready
    /\ res' = NoRes
    /\ UNCHANGED <<f, g, raw>>
    /\ UNCHANGED ivars

NextPoly ==
    \/ \E x \in EvalXs : OpEval(x)
    \/ OpNeg
    \/ \E s \in ScalarVals : OpScalar(s)
    \/ \E s \in ScalarVals : OpScalarLeft(s)
    \/ OpMul
    \/ OpAdd
    \/ OpSub
    \/ \E k \in -2..MaxExp : OpPow(k)
    \/ OpDerivative
    \/ \E c \in CoefVals : OpIntegral(c)
    \/ OpDerivativeOfIntegral
    \/ OpCompose
    \/ \E n \in 0..MaxPoints : OpInterpolate(n)
    \/ OpMulAssign
    \/ OpAddAssign
    \/ OpSubAssign
    \/ OpMulAssignSelf
    \/ OpAddAssignSelf
    \/ OpSubAssignSelf
    \/ AssignF
    \/ AssignG
    \/ Discard

SpecPoly == InitPoly /\ [][NextPoly]_vars

(***************************************************************************)
(* The constructor on its own: f is constructed anew from a list.          *)
(***************************************************************************)
Construct(L) ==
    /\ raw' = L
    /\ f' = Polynomial(L)
    /\ res' = Result("ctor", Polynomial(L))
    /\ UNCHANGED g
    /\ UNCHANGED ivars

NextCtor == \E L \in ListsUpTo(MaxRaw) : Construct(L)

SpecCtor == Init /\ [][NextCtor]_vars

(***************************************************************************)
(* The Interpolator given the points of the README, in any order, and      *)
(* asked for its polynomial.                                               *)
(***************************************************************************)
\* the points (1, 7), (2, -2), (3, 6), in the order the README gives them
ReadmePoints ==
    <<[x |-> FromInt(1), y |-> FromInt(7)],
      [x |-> FromInt(2), y |-> FromInt(-2)],
      [x |-> FromInt(3), y |-> FromInt(6)]>>

\* interp.polynomial(): the points are read, nothing is changed
PolynomialCall ==
    /\ call' = [op |-> "polynomial", x |-> Zero, y |-> Zero]
    /\ res' = Result("polynomial", polynomial(points))
    /\ UNCHANGED <<coeffs, points, fresh, dropped, ret>>
    /\ UNCHANGED <<raw, f, g>>

NextReadme ==
    \/ \E j \in 1..Len(ReadmePoints) : Insert(ReadmePoints[j].x, ReadmePoints[j].y)
    \/ Clear
    \/ PolynomialCall

SpecReadme == Init /\ [][NextReadme]_vars

(***************************************************************************)
(* Claims about the Interpolator.                                          *)
(***************************************************************************)

\* the stored points of each lineage, as the caller gave them
StoredXs(recs) == {recs[i].x : i \in 1..Len(recs)}
PairwiseDistinctX(recs) ==
    \A i, j \in 1..Len(recs) : i # j => recs[i].x # recs[j].x

\* C1: after any sequence of successful inserts with pairwise distinct x,
\* calc(x_j) = y_j for every stored record j, and polynomial() evaluated at
\* x_j is y_j for every stored point j.
C1_ReproducesPoints ==
    /\ \A j \in 1..Len(coeffs) : calc(coeffs, coeffs[j].x) = coeffs[j].y
    /\ LET poly == polynomial(points)
       IN  \A j \in 1..Len(points) : Eval(poly, points[j].x) = points[j].y

\* three points not on one line, stored in both Interpolators
C1_Witness ==
    /\ Len(coeffs) = 3
    /\ Len(points) = 3
    /\ Len(polynomial(points)) = 3
    /\ \E j \in 1..3 : points[j].y # points[1].y

\* C2: insert(x, y) with x the x of a stored record returns false and leaves
\* the whole state as it was: the record count, every record's (x, y), root
\* list and denominator (calc and polynomial() read nothing else, so they
\* give what they gave before), whether or not y is the stored y.
SameRecord(c, d) ==
    /\ c.x = d.x
    /\ c.y = d.y
    /\ c.diffs = d.diffs
    /\ c.denom = d.denom

C2_DuplicateStep ==
    (call'.op = "insert" /\ HasX(points, call'.x) /\ HasX(coeffs, call'.x))
        => /\ ret' = [inc |-> FALSE, exp |-> FALSE]
           /\ Len(coeffs') = Len(coeffs)
           /\ \A j \in 1..Len(coeffs) : SameRecord(coeffs'[j], coeffs[j])
           /\ points' = points

C2_DuplicateRejected == [][C2_DuplicateStep]_vars

\* a duplicate x with a y other than the stored one has just been rejected
C2_Witness ==
    /\ call.op = "insert"
    /\ ret = [inc |-> FALSE, exp |-> FALSE]
    /\ Len(points) >= 2
    /\ \E j \in 1..Len(points) : points[j].x = call.x /\ points[j].y # call.y
    /\ \E j \in 1..Len(coeffs) : coeffs[j].x = call.x /\ coeffs[j].y # call.y

\* C3: in every state reached by inserts (accepted or rejected) and clears,
\* the stored x-coordinates are pairwise distinct.
C3_DistinctX ==
    /\ PairwiseDistinctX(coeffs)
    /\ PairwiseDistinctX(points)

\* a rejected insert on an Interpolator that holds three points
C3_Witness ==
    /\ call.op = "insert"
    /\ ret.inc = FALSE
    /\ ret.exp = FALSE
    /\ Len(coeffs) = 3
    /\ Len(points) = 3

\* C4: every record's basis term is 1 at its own x and 0 at the x of every
\* other stored record.
C4_BasisCardinal ==
    \A j, k \in 1..Len(coeffs) :
        BasisTerm(coeffs[j], coeffs[k].x) = IF j = k THEN One ELSE Zero

\* a third point has just been inserted: two old records updated, one new
C4_Witness ==
    /\ call.op = "insert"
    /\ ret.inc = TRUE
    /\ Len(coeffs) = 3
    /\ \A j \in 1..3 : Len(coeffs[j].diffs) = 2

\* C5: after clear() no records are held, and from then on the inserts return
\* what they return on, and leave the points and polynomial() of, a newly
\* constructed Interpolator given the same calls.
C5_ClearIsNew ==
    /\ call.op = "clear" => points = <<>>
    /\ call.op = "insert" => ret.exp = fresh.ret
    /\ points = fresh.points
    /\ polynomial(points) = polynomial(fresh.points)

\* an x that clear() removed has been inserted again, with success
C5_Witness ==
    /\ call.op = "insert"
    /\ call.x = dropped
    /\ ret.exp = TRUE
    /\ Len(points) >= 2
    /\ \E j \in 1..Len(points) : points[j].x = dropped

(***************************************************************************)
(* Claims about the Polynomial.                                            *)
(***************************************************************************)

\* canonical form: no coefficients, or a last coefficient other than zero
Canonical(p) == Len(p) = 0 \/ p[Len(p)] # Zero

\* C6: every Polynomial a constructor or an operation produced is in
\* canonical form: the two objects and every returned value.
C6_Canonical ==
    /\ Canonical(f)
    /\ Canonical(g)
    /\ ~res.thrown => Canonical(res.value)

\* the integral of the zero polynomial with constant 0: the vector <<0>>
\* turns into the zero polynomial
C6_Witness ==
    /\ res.op = "integral"
    /\ isZero(f)
    /\ res.value = PolyZero

\* the length of the longest prefix of L that ends in a nonzero element
PrefixLen(L) ==
    LET ends == {n \in 1..Len(L) : L[n] # Zero}
    IN  IF ends = {} THEN 0 ELSE CHOOSE n \in ends : \A m \in ends : m <= n

\* C7: constructing from a list L gives the longest prefix of L whose last
\* element is nonzero, the empty sequence for an empty or all-zero L, and
\* isZero() is true exactly for the empty sequence.
C7_Constructor ==
    res.op = "ctor" =>
        /\ f = SubSeq(raw, 1, PrefixLen(raw))
        /\ res.value = f
        /\ isZero(f) <=> (f = <<>>)
        /\ (\A i \in 1..Len(raw) : raw[i] = Zero) => f = <<>> /\ isZero(f)

\* a list like [3, 7, 0, 0], and one with a zero below its highest nonzero
C7_Witness ==
    /\ res.op = "ctor"
    /\ Len(raw) = 4
    /\ raw[1] = Zero /\ raw[2] # Zero /\ raw[3] = Zero /\ raw[4] = Zero
    /\ f = <<raw[1], raw[2]>>

\* C8: a product with the zero polynomial on either side, or on both, is the
\* zero polynomial with no coefficients, and the length a + b - 1 is computed
\* only with a >= 1 and b >= 1, so the subtraction never wraps.
C8_ZeroProduct ==
    res.op = "mul" =>
        /\ ~res.thrown
        /\ (isZero(f) \/ isZero(g)) => res.value = <<>> /\ ~res.sized
        /\ res.sized => Len(f) >= 1 /\ Len(g) >= 1 /\ ~res.wrapped

\* zero * zero, where a + b - 1 would be -1
C8_Witness ==
    /\ res.op = "mul"
    /\ isZero(f)
    /\ isZero(g)
    /\ res.value = <<>>

\* C9: pow with a negative exponent throws, whatever the base, and returns
\* nothing.
C9_NegativePow ==
    (res.op = "pow" /\ res.k < 0) => res.thrown

\* the zero polynomial to the power -2
C9_Witness ==
    /\ res.op = "pow"
    /\ res.k = -2
    /\ isZero(f)
    /\ res.thrown

\* C10: pow(0) returns [1] for every base and throws nothing.
C10_PowZero ==
    (res.op = "pow" /\ res.k = 0) => ~res.thrown /\ res.value = <<One>>

\* the zero polynomial to the power 0
C10_Witness ==
    /\ res.op = "pow"
    /\ res.k = 0
    /\ isZero(f)
    /\ res.value = <<One>>

\* C11: for every base f and every exponent k >= 0, f.pow(k) throws nothing
\* and returns the coefficients of the product [1] * f * f * ... with k
\* factors f, multiplied out one after the other.
C11_PowIsProduct ==
    (res.op = "pow" /\ res.k >= 0) =>
        /\ ~res.thrown
        /\ res.value = RepeatMul(f, res.k)

\* a quadratic to the power 5 (binary 101): two accumulations, two squarings
C11_Witness ==
    /\ res.op = "pow"
    /\ res.k = 5
    /\ Len(f) = 3
    /\ Len(res.value) = 11

\* C12: for every polynomial f and every constant C, the derivative of
\* f.integral(C) has exactly the coefficients of f, also for the zero
\* polynomial and for C = 0.
C12_DerivativeOfIntegral ==
    res.op = "integral.derivative" => res.value = f

\* a quadratic integrated with C = 0 and differentiated again
C12_Witness ==
    /\ res.op = "integral.derivative"
    /\ res.arg = Zero
    /\ Len(f) = 3
    /\ res.value = f

\* the x values at which polynomials are compared
SampleXs == {FromInt(i) : i \in -MaxPoints..MaxPoints}

\* C13: for all f and g, compose(f, g) evaluated at x is f evaluated at
\* g(x), for every x; compose([0, 2, 5], [7, -3]) is [259, -216, 45] and
\* compose([7.5, -1, 1], [100, 3]) is [9907.5, 597, 9].
C13_Compose ==
    res.op = "compose" =>
        /\ \A x \in SampleXs : Eval(res.value, x) = Eval(f, Eval(g, x))
        /\ (f = <<Zero, FromInt(2), FromInt(5)>> /\ g = <<FromInt(7), FromInt(-3)>>)
               => res.value = <<FromInt(259), FromInt(-216), FromInt(45)>>
        /\ (f = <<Rat(15, 2), FromInt(-1), One>> /\ g = <<FromInt(100), FromInt(3)>>)
               => res.value = <<Rat(19815, 2), FromInt(597), FromInt(9)>>

\* the example of the documentation
C13_Witness ==
    /\ res.op = "compose"
    /\ f = <<Zero, FromInt(2), FromInt(5)>>
    /\ g = <<FromInt(7), FromInt(-3)>>
    /\ res.value = <<FromInt(259), FromInt(-216), FromInt(45)>>

\* the sum of p[i] * q[j] over the pairs with i + j = m (m counted from 1
\* as the sequences are: i + j - 1 = m)
RECURSIVE ConvSum(_, _, _, _, _)
ConvSum(p, q, m, i, acc) ==
    IF i > Len(p) THEN acc
    ELSE ConvSum(p, q, m, i + 1,
                 IF m + 1 - i \in 1..Len(q)
                 THEN RAdd(acc, RMul(p[i], q[m + 1 - i]))
                 ELSE acc)

\* a list without its trailing zeros
Stripped(L) == SubSeq(L, 1, PrefixLen(L))

\* C14: the product of nonzero polynomials of lengths a and b is their
\* convolution over a + b - 1 positions, canonicalized: coefficient m is the
\* sum of f[i] * g[j] over i + j = m; [-1, 1] * [-2, 1] = [2, -3, 1].
C14_Convolution ==
    (res.op = "mul" /\ ~isZero(f) /\ ~isZero(g)) =>
        /\ res.sized
        /\ res.value = Stripped([m \in 1..(Len(f) + Len(g) - 1) |-> ConvSum(f, g, m, 1, Zero)])
        /\ (f = <<FromInt(-1), One>> /\ g = <<FromInt(-2), One>>)
               => res.value = <<FromInt(2), FromInt(-3), One>>

\* (x - 1)(x - 2)
C14_Witness ==
    /\ res.op = "mul"
    /\ f = <<FromInt(-1), One>>
    /\ g = <<FromInt(-2), One>>
    /\ res.value = <<FromInt(2), FromInt(-3), One>>

\* coefficient i of p, zero where p has none
CoefAt(p, i) == IF i \in 1..Len(p) THEN p[i] ELSE Zero

\* the longer of the two operand lengths
LongerLen == IF Len(f) >= Len(g) THEN Len(f) ELSE Len(g)

\* C15: f + g (f - g) is the position-wise sum (difference) over
\* max(len f, len g) positions, a missing coefficient counting as zero, with
\* trailing zeros stripped; its length is that maximum unless the top
\* coefficients cancel, and f - f is the zero polynomial.
C15_AddSub ==
    /\ res.op = "add" =>
          /\ res.value = Stripped([i \in 1..LongerLen |-> RAdd(CoefAt(f, i), CoefAt(g, i))])
          /\ Len(res.value) <= LongerLen
          /\ RAdd(CoefAt(f, LongerLen), CoefAt(g, LongerLen)) # Zero
                => Len(res.value) = LongerLen
    /\ res.op = "sub" =>
          /\ res.value = Stripped([i \in 1..LongerLen |-> RSub(CoefAt(f, i), CoefAt(g, i))])
          /\ Len(res.value) <= LongerLen
          /\ RSub(CoefAt(f, LongerLen), CoefAt(g, LongerLen)) # Zero
                => Len(res.value) = LongerLen
          /\ f = g => res.value = <<>>

\* a sum whose right operand is the longer one and whose top coefficient
\* is kept
C15_Witness ==
    /\ res.op = "add"
    /\ Len(f) = 2
    /\ Len(g) = 4
    /\ Len(res.value) = 4

\* the step is the call of op: nothing was pending and op is recorded
Called(op) == res.op = "none" /\ res'.op = op

\* C16: after f OP= g, for OP one of *, +, -, f is f OP g of the operands
\* before the call, the reference returned is f, and g is unchanged; the
\* same with f itself for g: f *= f squares f, f -= f makes f zero.
C16_InPlaceStep ==
    /\ Called("mulassign") => f' = Mul(f, g) /\ g' = g /\ res'.value = f'
    /\ Called("addassign") => f' = Add(f, g) /\ g' = g /\ res'.value = f'
    /\ Called("subassign") => f' = Sub(f, g) /\ g' = g /\ res'.value = f'
    /\ Called("mulassign.self") => f' = Mul(f, f) /\ g' = g /\ res'.value = f'
    /\ Called("addassign.self") => f' = Add(f, f) /\ g' = g /\ res'.value = f'
    /\ Called("subassign.self") => f' = <<>> /\ g' = g /\ res'.value = f'

C16_InPlace == [][C16_InPlaceStep]_vars

\* f *= f has made a polynomial of two coefficients one of three
C16_Witness ==
    /\ res.op = "mulassign.self"
    /\ Len(f) = 3
    /\ f[3] = One

\* C17: for every polynomial and every x, the evaluation by Horner's scheme
\* returns the power sum c0 + c1*x + ... + c(n-1)*x^(n-1) as the earlier
\* evaluator accumulates it, and the zero polynomial evaluates to 0.
C17_HornerIsPowerSum ==
    res.op = "eval" =>
        /\ res.y = EvalPowers(f, res.arg)
        /\ isZero(f) => res.y = Zero

\* a quadratic evaluated at 3.5
C17_Witness ==
    /\ res.op = "eval"
    /\ Len(f) = 3
    /\ res.arg = Rat(7, 2)
    /\ res.y # Zero

\* C18: with the points (1, 7), (2, -2), (3, 6) inserted in that order,
\* polynomial() returns the coefficients [33, -34.5, 8.5].
C18_ReadmeExample ==
    (call.op = "polynomial" /\ points = ReadmePoints)
        => res.value = <<FromInt(33), Rat(-69, 2), Rat(17, 2)>>

\* polynomial() has been called on the three points
C18_Witness ==
    /\ call.op = "polynomial"
    /\ points = ReadmePoints
    /\ Len(res.value) = 3

\* c added up i times
RECURSIVE Times(_, _)
Times(i, c) == IF i <= 0 THEN Zero ELSE RAdd(Times(i - 1, c), c)

\* C19: the derivative of [c0, c1, ..., c(n-1)] is [1*c1, 2*c2, ...,
\* (n-1)*c(n-1)], canonicalized; the derivative of the zero polynomial and
\* of a constant polynomial is the zero polynomial.
C19_Derivative ==
    res.op = "derivative" =>
        /\ res.value = Stripped([i \in 1..(Len(f) - 1) |-> Times(i, f[i + 1])])
        /\ Len(f) <= 1 => res.value = <<>>

\* the derivative of 3 - 4x + 5x^2 is -4 + 10x
C19_Witness ==
    /\ res.op = "derivative"
    /\ f = <<FromInt(3), FromInt(-4), FromInt(5)>>
    /\ res.value = <<FromInt(-4), FromInt(10)>>

\* C20: for every polynomial f and scalar s, f * s and s * f return the same
\* polynomial: coefficient i is s * f[i], canonicalized, which is the zero
\* polynomial for s = 0.
C20_ScalarProduct ==
    res.op \in {"scalar", "scalarleft"} =>
        /\ res.value = Stripped([i \in 1..Len(f) |-> RMul(res.arg, f[i])])
        /\ res.value = ScalarMul(f, res.arg)
        /\ res.value = ScalarMulLeft(res.arg, f)
        /\ res.arg = Zero => res.value = <<>>

\* -2 * f for a quadratic f
C20_Witness ==
    /\ res.op = "scalarleft"
    /\ res.arg = FromInt(-2)
    /\ Len(f) = 3
    /\ Len(res.value) = 3

(***************************************************************************)
(* Further claims about the Interpolator.                                  *)
(***************************************************************************)

\* the x values of the records other than record j, in the order stored
RECURSIVE OtherXs(_, _, _)
OtherXs(recs, j, k) ==
    IF k > Len(recs) THEN <<>>
    ELSE IF k = j THEN OtherXs(recs, j, k + 1)
    ELSE <<recs[k].x>> \o OtherXs(recs, j, k + 1)

\* the product of (x_j - x_k) over the records k other than j
RECURSIVE DenomFromScratch(_, _, _)
DenomFromScratch(recs, j, k) ==
    IF k > Len(recs) THEN One
    ELSE IF k = j THEN DenomFromScratch(recs, j, k + 1)
    ELSE RMul(RSub(recs[j].x, recs[k].x), DenomFromScratch(recs, j, k + 1))

\* how often x occurs in the sequence s
Occurrences(s, x) == Cardinality({i \in 1..Len(s) : s[i] = x})

\* C21: with n records held, every record j's root list has n - 1 entries,
\* holds the x of each other record exactly once and not its own, and its
\* denominator is the product of (x_j - x_k) over k # j: the records kept
\* up to date by insert are the records computed anew from the points.
C21_RecordsFromScratch ==
    \A j \in 1..Len(coeffs) :
        /\ Len(coeffs[j].diffs) = Len(coeffs) - 1
        /\ \A k \in 1..Len(coeffs) :
              Occurrences(coeffs[j].diffs, coeffs[k].x) = IF k = j THEN 0 ELSE 1
        /\ coeffs[j].diffs = OtherXs(coeffs, j, 1)
        /\ coeffs[j].denom = DenomFromScratch(coeffs, j, 1)

\* three records, the last one with a denominator other than 1
C21_Witness ==
    /\ Len(coeffs) = 3
    /\ coeffs[3].denom # One
    /\ coeffs[1].diffs = <<coeffs[2].x, coeffs[3].x>>

\* the arguments calc and the polynomial are queried at: stored and
\* unstored integers, and a value between two stored x
QueryXs == SampleXs \cup {Rat(1, 2)}

\* C22: in every state reached through insert, every record's denominator
\* is a nonzero number and every divisor x_j - x_k that polynomial() forms
\* for k # j is nonzero, so calc and polynomial() never divide by zero:
\* their results are numbers.
C22_NoDivisionByZero ==
    /\ \A j \in 1..Len(coeffs) :
          IsNum(coeffs[j].denom) /\ coeffs[j].denom # Zero
    /\ \A j, k \in 1..Len(points) :
          k # j => RSub(points[j].x, points[k].x) # Zero
    /\ \A x \in QueryXs : IsNum(calc(coeffs, x))
    /\ LET p == polynomial(points)
       IN  \A i \in 1..Len(p) : IsNum(p[i])

\* a stored x was offered again with several records held, and calc still
\* returns a nonzero number between the stored x
C22_Witness ==
    /\ Len(coeffs) >= 2
    /\ call.op = "insert"
    /\ ~ret.inc
    /\ calc(coeffs, Rat(1, 2)) \notin {Zero, Undef}

\* C23: after the same sequence of insert calls, calc(x) of the incremental
\* Interpolator equals polynomial() of the expansion Interpolator evaluated
\* at x, for every query x (stored or not), and the two insert functions
\* returned the same flag.
C23_CalcIsPolynomial ==
    /\ ret.inc = ret.exp
    /\ Len(coeffs) = Len(points)
    /\ LET p == polynomial(points)
       IN  \A x \in QueryXs : calc(coeffs, x) = Eval(p, x)

\* three points not on a common line, so that an unstored x gives a value
\* that is none of the stored y
C23_Witness ==
    /\ Len(points) = 3
    /\ call.op = "insert"
    /\ ret.exp
    /\ Len(polynomial(points)) = 3
    /\ \E x \in QueryXs :
          /\ ~HasX(points, x)
          /\ \A j \in 1..Len(points) : calc(coeffs, x) # points[j].y

\* the records recs2 are the records recs1, in the same order with the same
\* (x, y), followed by one record holding (x, y)
Appended(recs1, recs2, x, y) ==
    /\ Len(recs2) = Len(recs1) + 1
    /\ recs2[Len(recs2)].x = x
    /\ recs2[Len(recs2)].y = y
    /\ \A j \in 1..Len(recs1) : recs2[j].x = recs1[j].x /\ recs2[j].y = recs1[j].y

\* C27: insert(x, y) with x different from every stored x returns true and
\* adds exactly one record, (x, y), after all the others, whose (x, y) and
\* order stay as they were; and no call but clear() lowers the record count.
C27_InsertStep ==
    /\ (call'.op = "insert" /\ ~HasX(points, call'.x) /\ ~HasX(coeffs, call'.x))
          => /\ ret' = [inc |-> TRUE, exp |-> TRUE]
             /\ Appended(points, points', call'.x, call'.y)
             /\ Appended(coeffs, coeffs', call'.x, call'.y)
    /\ call'.op # "clear"
          => Len(points') >= Len(points) /\ Len(coeffs') >= Len(coeffs)

C27_InsertAppends == [][C27_InsertStep]_vars

\* a third point has just been accepted, with the y of the first and an x
\* below the x of both
C27_Witness ==
    /\ call.op = "insert"
    /\ ret = [inc |-> TRUE, exp |-> TRUE]
    /\ Len(points) = 3
    /\ points[3] = [x |-> call.x, y |-> call.y]
    /\ points[3].y = points[1].y
    /\ points[3].x = FromInt(-1)
    /\ coeffs[3].x = call.x

\* q passes through all the stored points
PassesThrough(q, pts) == \A j \in 1..Len(pts) : Eval(q, pts[j].x) = pts[j].y

\* polynomials of at most n coefficients: those with coefficients in
\* CoefVals, and those that differ from p by such a polynomial
Candidates(p, n) ==
    LET small == {Polynomial(L) : L \in ListsUpTo(n)}
    IN  small \cup {Add(p, d) : d \in small}

\* C28: for n stored points (their x pairwise distinct), polynomial() has at
\* most n coefficients, passes through the n points, and no other polynomial
\* of at most n coefficients passes through all of them.
C28_UniqueInterpolant ==
    LET p == polynomial(points)
        n == Len(points)
    IN  /\ Len(p) <= n
        /\ PassesThrough(p, points)
        /\ \A q \in Candidates(p, n) :
              (Len(q) <= n /\ PassesThrough(q, points)) => q = p

\* three points on a parabola whose coefficients are all in CoefVals, so
\* that the polynomial is found among the candidates built without it
C28_Witness ==
    /\ Len(points) = 3
    /\ Len(polynomial(points)) = 3
    /\ polynomial(points) \in {Polynomial(L) : L \in ListsUpTo(3)}
    /\ \E q \in Candidates(polynomial(points), 3) :
          Len(q) = 3 /\ q # polynomial(points) /\ Eval(q, points[1].x) = points[1].y

\* the expansion Interpolator after inserting pts[pi[i]], pts[pi[i+1]], ...
RECURSIVE InsertInOrder(_, _, _, _)
InsertInOrder(acc, pts, pi, i) ==
    IF i > Len(pts) THEN acc
    ELSE InsertInOrder(insert(acc, pts[pi[i]].x, pts[pi[i]].y).points, pts, pi, i + 1)

\* the incremental Interpolator after the same inserts
RECURSIVE InsertCoeffsInOrder(_, _, _, _)
InsertCoeffsInOrder(acc, pts, pi, i) ==
    IF i > Len(pts) THEN acc
    ELSE InsertCoeffsInOrder(insertCoeffs(acc, pts[pi[i]].x, pts[pi[i]].y).coeffs,
                             pts, pi, i + 1)

\* a < b, for numbers
Less(a, b) == a[1] * b[2] < b[1] * a[2]

\* the order that takes the points by rising x: the point taken r-th is
\* the one with r - 1 stored x below its own
Rising(pts) ==
    [r \in 1..Len(pts) |->
        CHOOSE i \in 1..Len(pts) :
            Cardinality({k \in 1..Len(pts) : Less(pts[k].x, pts[i].x)}) = r - 1]

\* the order that takes the points last to first
Backwards(pts) == [i \in 1..Len(pts) |-> Len(pts) + 1 - i]

\* C29: the interpolant does not depend on the order of insertion: the
\* stored points inserted into a new Interpolator by rising x, or last to
\* first, give the same coefficient sequence from polynomial() and the same
\* value from calc(x) at every query x.  Every order of every set of points
\* is the order of some reachable state, and each is compared with the
\* rising order of its set, so any two orders of one set agree.
C29_OrderIndependent ==
    LET p == polynomial(points)
        y == [x \in QueryXs |-> calc(coeffs, x)]
    IN  \A pi \in {Rising(points), Backwards(points)} :
            LET other == InsertCoeffsInOrder(NewCoeffs, points, pi, 1)
            IN  /\ polynomial(InsertInOrder(NewInterpolator.points, points, pi, 1)) = p
                /\ \A x \in QueryXs : calc(other, x) = y[x]

\* three points stored in an order that is neither rising nor falling in
\* x, with a polynomial of three coefficients
C29_Witness ==
    /\ Len(points) = 3
    /\ points[2].x = FromInt(-1)
    /\ points[3].x = One
    /\ Len(polynomial(points)) = 3
    /\ InsertInOrder(NewInterpolator.points, points, Rising(points), 1) # points
    /\ Rising(points) # Backwards(points)

\* C30: with no records, in a new Interpolator or after clear(),
\* polynomial() returns the zero polynomial and calc(x) returns 0 for every
\* x; with exactly one record (x0, y0), calc(x) returns y0 for every x and
\* polynomial() returns the constant [y0], the zero polynomial when y0 = 0.
C30_NoneAndOne ==
    /\ Len(points) = 0 => polynomial(points) = PolyZero
    /\ Len(coeffs) = 0 => \A x \in QueryXs : calc(coeffs, x) = Zero
    /\ Len(fresh.points) = 0 => isZero(polynomial(fresh.points))
    /\ Len(coeffs) = 1 => \A x \in QueryXs : calc(coeffs, x) = coeffs[1].y
    /\ Len(points) = 1 =>
          /\ polynomial(points) = Polynomial(<<points[1].y>>)
          /\ points[1].y = Zero => isZero(polynomial(points))

\* points were stored and cleared, and then one point with y0 = 0 was
\* stored at a nonzero x
C30_Witness ==
    /\ dropped # NoX
    /\ call.op = "insert"
    /\ Len(points) = 1
    /\ Len(coeffs) = 1
    /\ points[1].y = Zero
    /\ points[1].x # Zero
    /\ polynomial(points) = PolyZero

(***************************************************************************)
(* Further claims about pow and compose.                                   *)
(***************************************************************************)

\* 2 to the power e
RECURSIVE TwoTo(_)
TwoTo(e) == IF e = 0 THEN 1 ELSE 2 * TwoTo(e - 1)

\* floor(log2 k) for k >= 1
Log2(k) == CHOOSE e \in 0..k : TwoTo(e) <= k /\ k < TwoTo(e + 1)

\* the number of bits set in k >= 1
SetBits(k) == Cardinality({e \in 0..Log2(k) : (k \div TwoTo(e)) % 2 = 1})

\* C24: for every exponent k >= 0 the loop of pow comes to an end, also
\* when entered with k = 0 or 1; for k >= 2 the call runs the loop body
\* floor(log2 k) + 1 times, squares floor(log2 k) times and accumulates
\* once per set bit of k, which is at most 2 * floor(log2 k) + 1
\* multiplications of polynomials.
C24_PowLoopCost ==
    (res.op = "pow" /\ res.k >= 0) =>
        /\ ~res.thrown
        /\ powLoopOnly(f, res.k).run.iterations \in 1..(res.k + 1)
        /\ res.k >= 2 =>
              /\ res.run.iterations = Log2(res.k) + 1
              /\ res.run.squarings = Log2(res.k)
              /\ res.run.accumulations = SetBits(res.k)
              /\ res.run.squarings + res.run.accumulations
                    <= 2 * Log2(res.k) + 1

\* a nonzero base to the power 5 (binary 101): three passes, two squarings,
\* two accumulations
C24_Witness ==
    /\ res.op = "pow"
    /\ res.k = 5
    /\ ~isZero(f)
    /\ res.run = [iterations |-> 3, squarings |-> 2, accumulations |-> 2]

\* C25: the early returns of pow for the exponents 0 and 1 change nothing
\* but the work done: for every base, the zero polynomial included, and
\* every exponent >= 0, pow returns what pow without the two early returns
\* returns.
C25_ShortcutsArePure ==
    (res.op = "pow" /\ res.k >= 0) =>
        LET slow == powLoopOnly(f, res.k)
        IN  /\ slow.thrown = res.thrown
            /\ slow.value = res.value

\* the zero polynomial to the power 1: returned without entering the loop,
\* which would have run once and multiplied [1] by zero
C25_Witness ==
    /\ res.op = "pow"
    /\ res.k = 1
    /\ isZero(f)
    /\ res.run = NoRun
    /\ powLoopOnly(f, 1).run.accumulations = 1
    /\ res.value = PolyZero

\* the sum of f[i] * g.pow(i) over the coefficients of f from index i on
\* (index from 0), every power computed by a call of pow of its own
RECURSIVE SumOfPowers(_, _, _)
SumOfPowers(outer, inner, i) ==
    IF i >= Len(outer) THEN PolyZero
    ELSE Add(ScalarMulLeft(outer[i + 1], pow(inner, i).value),
             SumOfPowers(outer, inner, i + 1))

\* C26: for all polynomials f and g, compose(f, g) equals the sum over i of
\* f[i] * g.pow(i) with every power computed from scratch; for g the zero
\* polynomial the result is the constant f[0], since g^0 = [1], and for f
\* the zero polynomial the result is zero.
C26_ComposeIsSumOfPowers ==
    res.op = "compose" =>
        /\ res.value = SumOfPowers(f, g, 0)
        /\ isZero(g) => res.value = Polynomial(<<CoefAt(f, 1)>>)
        /\ isZero(f) => isZero(res.value)

\* a quadratic outer polynomial with a nonzero constant term, composed with
\* the zero polynomial
C26_Witness ==
    /\ res.op = "compose"
    /\ Len(f) = 3
    /\ f[1] # Zero
    /\ isZero(g)
    /\ res.value = <<f[1]>>

====
